---- MODULE Spec2Model ----
(***************************************************************************)
(* Model of spacebot's OpenCode protocol types (src/opencode/types.rs) and *)
(* of its conversation logger (src/conversation/history.rs).               *)
(*                                                                         *)
(* JSON values (serde_json::Value) are tagged records; Rust values are     *)
(* records too, so that any two values can be compared.                    *)
(***************************************************************************)
EXTENDS Integers, Sequences, FiniteSets, TLC

VARIABLES
    envelope,   \* the SseEventEnvelope handed to from_envelope, or NoEnvelope
    event,      \* the SseEvent from_envelope returned for it, or NoEvent
    delivered,  \* an event stream so far: each envelope with the event from_envelope returned for it
    request,    \* the outbound request value last built, or NoRequest
    body,       \* its serialization (serde_json::to_value), or NoBody
    db,         \* conversation_messages / compaction_summaries / conversation_archives rows
    tasks,      \* spawned tokio tasks whose INSERT has not executed yet
    warnings,   \* how many times each tracing::warn! line was written
    clock,      \* the database's CURRENT_TIMESTAMP
    nextId,     \* stands for uuid::Uuid::new_v4(): a fresh id per call
    returned,   \* what the write method called in the last step gave back to its caller
    loaded      \* the load_recent call of the last step: its arguments and its result

vars == <<envelope, event, delivered, request, body, db, tasks, warnings, clock, nextId, returned, loaded>>

sseVars == <<envelope, event, delivered>>
reqVars == <<request, body>>
logVars == <<db, tasks, warnings, clock, nextId, returned, loaded>>

(***************************************************************************)
(* serde_json::Value                                                       *)
(***************************************************************************)
JNull == [k |-> "null"]
JBool(b) == [k |-> "bool", b |-> b]
JStr(s) == [k |-> "str", s |-> s]
\* a JSON integer that fits an i32 (so a non-negative one fits a u32)
JNum(n) == [k |-> "num", n |-> n]
\* a JSON integer above u32::MAX (and below u64::MAX)
JBig == [k |-> "big"]
\* a JSON number with a fraction, kept as its text
JFloat(t) == [k |-> "float", f |-> t]
JObj(f) == [k |-> "obj", o |-> f]
JArr(a) == [k |-> "arr", a |-> a]

\* a key that is not in the object (never a value of a key)
Absent == [k |-> "absent"]

\* the object with the keys of r whose value is not Absent
Strip(r) == JObj([key \in {q \in DOMAIN r : r[q] # Absent} |-> r[key]])

EmptyObj == JObj(<<>>)

(***************************************************************************)
(* Rust values: Option, Result                                             *)
(***************************************************************************)
None == [opt |-> "None"]
Some(v) == [opt |-> "Some", v |-> v]
Ok(v) == [ok |-> TRUE, v |-> v]
Err == [ok |-> FALSE]

(***************************************************************************)
(* serde's Deserialize for the primitive types, from a serde_json::Value   *)
(***************************************************************************)
DeString(j) == IF j.k = "str" THEN Ok(j.s) ELSE Err

\* u32: a non-negative integer up to u32::MAX; a fraction is an error
DeU32(j) == IF j.k = "num" /\ j.n >= 0 THEN Ok(j.n) ELSE Err

\* f64: any number
DeF64(j) == IF j.k \in {"num", "big", "float"} THEN Ok(j) ELSE Err

\* serde_json::Value deserializes from anything, as itself
DeValue(j) == Ok(j)

\* Option<T>: null is None, anything else must be a T; r is j read as a T
DeOption(j, r) ==
    IF j = JNull THEN Ok(None)
    ELSE IF r.ok THEN Ok(Some(r.v)) ELSE Err

\* Vec<T>: an array whose every element is a T; rs are the elements read as T
DeVec(j, rs) ==
    IF j.k # "arr" THEN Err
    ELSE IF \A i \in 1..Len(j.a) : rs[i].ok
         THEN Ok([i \in 1..Len(j.a) |-> rs[i].v])
         ELSE Err

\* the elements of an array, none of anything else
Elements(j) == IF j.k = "arr" THEN j.a ELSE <<>>

\* HashMap<String, serde_json::Value>: any object
DeMap(j) == IF j.k = "obj" THEN Ok(j.o) ELSE Err

(***************************************************************************)
(* A derived struct deserializes from an object, by key, or from an array, *)
(* by position (visit_seq); an array longer than the struct is an error.   *)
(***************************************************************************)
IsStruct(j, n) == j.k = "obj" \/ (j.k = "arr" /\ Len(j.a) <= n)

Field(j, key, idx) ==
    IF j.k = "obj"
    THEN IF key \in DOMAIN j.o THEN j.o[key] ELSE Absent
    ELSE IF idx <= Len(j.a) THEN j.a[idx] ELSE Absent

\* a field without #[serde(default)] that is not an Option: missing is an
\* error; r is the field read as its type
Required(f, r) == IF f = Absent THEN Err ELSE r

\* #[serde(default)] field: missing is the type's Default
Default(f, r, dflt) == IF f = Absent THEN Ok(dflt) ELSE r

\* #[serde(default)] Option<T> field
DefaultOption(f, r) == IF f = Absent THEN Ok(None) ELSE DeOption(f, r)

(***************************************************************************)
(* An internally tagged enum (#[serde(tag = ...)]): the tag is taken out   *)
(* of the object (or is the first element of an array) and the rest is the *)
(* variant's content.                                                      *)
(***************************************************************************)
IsTagged(j) == j.k = "obj" \/ (j.k = "arr" /\ Len(j.a) >= 1)

TagOf(j, tagName) ==
    IF j.k = "obj"
    THEN IF tagName \in DOMAIN j.o THEN j.o[tagName] ELSE Absent
    ELSE j.a[1]

ContentOf(j, tagName) ==
    IF j.k = "obj"
    THEN JObj([key \in DOMAIN j.o \ {tagName} |-> j.o[key]])
    ELSE JArr(Tail(j.a))

\* The variant a tag names. names: the variants' wire names, in declaration
\* order. direct: the enum is read straight from a serde_json::Value, whose
\* deserialize_identifier takes a string only. Otherwise it is read from
\* serde's buffered Content (it sits inside another internally tagged
\* enum), whose deserialize_identifier also hands an unsigned integer to
\* the derived visit_u64, which takes it as the variant's index.
VariantOf(tag, names, direct, other) ==
    IF tag = Absent THEN Err
    ELSE IF tag.k = "str"
    THEN IF \E i \in 1..Len(names) : names[i] = tag.s THEN Ok(tag.s)
         ELSE IF other # "" THEN Ok(other) ELSE Err
    ELSE IF tag.k = "num" /\ ~direct /\ tag.n >= 0 /\ tag.n < Len(names)
    THEN Ok(names[tag.n + 1])
    ELSE Err

\* a unit variant's content: any object, or nothing left of an array
IsUnitContent(c) == IsStruct(c, 0)

(***************************************************************************)
(* Response types                                                          *)
(***************************************************************************)
\* struct TimeSpan { start: Option<f64>, end: Option<f64> }
DeTimeSpan(j) ==
    IF ~IsStruct(j, 2) THEN Err
    ELSE LET start == DefaultOption(Field(j, "start", 1),
                 DeF64(Field(j, "start", 1)))
             end == DefaultOption(Field(j, "end", 2),
                 DeF64(Field(j, "end", 2)))
         IN IF start.ok /\ end.ok
            THEN Ok([start |-> start.v, end |-> end.v])
            ELSE Err

\* struct MessageInfo { id, role, session_id: Option<String>, time: Option<TimeSpan> }
DeMessageInfo(j) ==
    IF ~IsStruct(j, 4) THEN Err
    ELSE LET id == Required(Field(j, "id", 1),
                 DeString(Field(j, "id", 1)))
             role == Required(Field(j, "role", 2),
                 DeString(Field(j, "role", 2)))
             session_id == DefaultOption(Field(j, "sessionID", 3),
                 DeString(Field(j, "sessionID", 3)))
             time == DefaultOption(Field(j, "time", 4),
                 DeTimeSpan(Field(j, "time", 4)))
         IN IF id.ok /\ role.ok /\ session_id.ok /\ time.ok
            THEN Ok([id |-> id.v, role |-> role.v,
                     session_id |-> session_id.v, time |-> time.v])
            ELSE Err

(***************************************************************************)
(* enum ToolState, tagged by "status". In this program a ToolState is only *)
(* ever read as the state field of Part::Tool, that is from the content    *)
(* that Part's own tag extraction has buffered.                            *)
(***************************************************************************)
ToolStateNames == <<"pending", "running", "completed", "error">>

DePending(c) ==
    IF ~IsStruct(c, 1) THEN Err
    ELSE LET input == DefaultOption(Field(c, "input", 1),
                 DeValue(Field(c, "input", 1)))
         IN IF input.ok THEN Ok([t |-> "Pending", input |-> input.v]) ELSE Err

DeRunning(c) ==
    IF ~IsStruct(c, 3) THEN Err
    ELSE LET input == DefaultOption(Field(c, "input", 1),
                 DeValue(Field(c, "input", 1)))
             title == DefaultOption(Field(c, "title", 2),
                 DeString(Field(c, "title", 2)))
             metadata == DefaultOption(Field(c, "metadata", 3),
                 DeMap(Field(c, "metadata", 3)))
         IN IF input.ok /\ title.ok /\ metadata.ok
            THEN Ok([t |-> "Running", input |-> input.v, title |-> title.v,
                     metadata |-> metadata.v])
            ELSE Err

DeCompleted(c) ==
    IF ~IsStruct(c, 4) THEN Err
    ELSE LET input == DefaultOption(Field(c, "input", 1),
                 DeValue(Field(c, "input", 1)))
             output == DefaultOption(Field(c, "output", 2),
                 DeString(Field(c, "output", 2)))
             title == DefaultOption(Field(c, "title", 3),
                 DeString(Field(c, "title", 3)))
             metadata == DefaultOption(Field(c, "metadata", 4),
                 DeMap(Field(c, "metadata", 4)))
         IN IF input.ok /\ output.ok /\ title.ok /\ metadata.ok
            THEN Ok([t |-> "Completed", input |-> input.v, output |-> output.v,
                     title |-> title.v, metadata |-> metadata.v])
            ELSE Err

DeError(c) ==
    IF ~IsStruct(c, 2) THEN Err
    ELSE LET input == DefaultOption(Field(c, "input", 1),
                 DeValue(Field(c, "input", 1)))
             error == DefaultOption(Field(c, "error", 2),
                 DeString(Field(c, "error", 2)))
         IN IF input.ok /\ error.ok
            THEN Ok([t |-> "Error", input |-> input.v, error |-> error.v])
            ELSE Err

\* the variant of ToolState a status tag selects
ToolStateVariant(tag) == VariantOf(tag, ToolStateNames, FALSE, "")

DeToolState(j) ==
    IF ~IsTagged(j) THEN Err
    ELSE LET variant == ToolStateVariant(TagOf(j, "status"))
             c == ContentOf(j, "status")
         IN IF ~variant.ok THEN Err
            ELSE CASE variant.v = "pending" -> DePending(c)
                   [] variant.v = "running" -> DeRunning(c)
                   [] variant.v = "completed" -> DeCompleted(c)
                   [] variant.v = "error" -> DeError(c)

\* impl ToolState
is_running(state) == state.t = "Running"

is_completed(state) == state.t = "Completed"

\* mutant: is_error matches the variant of is_completed
is_error_Completed(state) == state.t = "Completed"

is_error(state) == state.t = "Error"

status_str(state) ==
    CASE state.t = "Pending" -> "pending"
      [] state.t = "Running" -> "running"
      [] state.t = "Completed" -> "completed"
      [] state.t = "Error" -> "error"

(***************************************************************************)
(* enum Part, tagged by "type", read straight from the properties value    *)
(***************************************************************************)
PartNames == <<"text", "tool", "step-start", "step-finish">>

DeTextPart(c) ==
    IF ~IsStruct(c, 5) THEN Err
    ELSE LET id == Required(Field(c, "id", 1),
                 DeString(Field(c, "id", 1)))
             session_id == DefaultOption(Field(c, "sessionID", 2),
                 DeString(Field(c, "sessionID", 2)))
             message_id == DefaultOption(Field(c, "messageID", 3),
                 DeString(Field(c, "messageID", 3)))
             text == Default(Field(c, "text", 4),
                 DeString(Field(c, "text", 4)), "")
             time == DefaultOption(Field(c, "time", 5),
                 DeTimeSpan(Field(c, "time", 5)))
         IN IF id.ok /\ session_id.ok /\ message_id.ok /\ text.ok /\ time.ok
            THEN Ok([t |-> "Text", id |-> id.v, session_id |-> session_id.v,
                     message_id |-> message_id.v, text |-> text.v, time |-> time.v])
            ELSE Err

\* mutant: a missing state defaults to Pending
DeToolPartState_Pending(f) ==
    IF f = Absent THEN Ok(Some([t |-> "Pending", input |-> None]))
    ELSE DefaultOption(f, DeToolState(f))

\* state: Option<ToolState> with #[serde(default)]
DeToolPartState(f) == DefaultOption(f, DeToolState(f))

DeToolPart(c) ==
    IF ~IsStruct(c, 6) THEN Err
    ELSE LET id == Required(Field(c, "id", 1),
                 DeString(Field(c, "id", 1)))
             session_id == DefaultOption(Field(c, "sessionID", 2),
                 DeString(Field(c, "sessionID", 2)))
             message_id == DefaultOption(Field(c, "messageID", 3),
                 DeString(Field(c, "messageID", 3)))
             call_id == DefaultOption(Field(c, "callID", 4),
                 DeString(Field(c, "callID", 4)))
             tool == DefaultOption(Field(c, "tool", 5),
                 DeString(Field(c, "tool", 5)))
             state == DeToolPartState(Field(c, "state", 6))
         IN IF id.ok /\ session_id.ok /\ message_id.ok /\ call_id.ok /\ tool.ok
               /\ state.ok
            THEN Ok([t |-> "Tool", id |-> id.v, session_id |-> session_id.v,
                     message_id |-> message_id.v, call_id |-> call_id.v,
                     tool |-> tool.v, state |-> state.v])
            ELSE Err

DeStepStart(c) ==
    IF ~IsStruct(c, 2) THEN Err
    ELSE LET id == Required(Field(c, "id", 1),
                 DeString(Field(c, "id", 1)))
             session_id == DefaultOption(Field(c, "sessionID", 2),
                 DeString(Field(c, "sessionID", 2)))
         IN IF id.ok /\ session_id.ok
            THEN Ok([t |-> "StepStart", id |-> id.v, session_id |-> session_id.v])
            ELSE Err

DeStepFinish(c) ==
    IF ~IsStruct(c, 3) THEN Err
    ELSE LET id == Required(Field(c, "id", 1),
                 DeString(Field(c, "id", 1)))
             session_id == DefaultOption(Field(c, "sessionID", 2),
                 DeString(Field(c, "sessionID", 2)))
             reason == DefaultOption(Field(c, "reason", 3),
                 DeString(Field(c, "reason", 3)))
         IN IF id.ok /\ session_id.ok /\ reason.ok
            THEN Ok([t |-> "StepFinish", id |-> id.v, session_id |-> session_id.v,
                     reason |-> reason.v])
            ELSE Err

\* mutant: Part without its #[serde(other)] variant
PartVariant_NoOther(tag) == VariantOf(tag, PartNames, TRUE, "")

\* the variant of Part a type tag selects; #[serde(other)] takes the rest
PartVariant(tag) == VariantOf(tag, PartNames, TRUE, "other")

DePart(j) ==
    IF ~IsTagged(j) THEN Err
    ELSE LET variant == PartVariant(TagOf(j, "type"))
             c == ContentOf(j, "type")
         IN IF ~variant.ok THEN Err
            ELSE CASE variant.v = "text" -> DeTextPart(c)
                   [] variant.v = "tool" -> DeToolPart(c)
                   [] variant.v = "step-start" -> DeStepStart(c)
                   [] variant.v = "step-finish" -> DeStepFinish(c)
                   [] variant.v = "other" ->
                        IF IsUnitContent(c) THEN Ok([t |-> "Other"]) ELSE Err

(***************************************************************************)
(* enum SessionStatusPayload, tagged by "type", rename_all snake_case      *)
(***************************************************************************)
SessionStatusNames == <<"idle", "busy", "retry">>

DeRetry(c) ==
    IF ~IsStruct(c, 2) THEN Err
    ELSE LET attempt == Default(Field(c, "attempt", 1),
                 DeU32(Field(c, "attempt", 1)), 0)
             message == DefaultOption(Field(c, "message", 2),
                 DeString(Field(c, "message", 2)))
         IN IF attempt.ok /\ message.ok
            THEN Ok([t |-> "Retry", attempt |-> attempt.v, message |-> message.v])
            ELSE Err

SessionStatusVariant(tag) == VariantOf(tag, SessionStatusNames, TRUE, "")

DeSessionStatusPayload(j) ==
    IF ~IsTagged(j) THEN Err
    ELSE LET variant == SessionStatusVariant(TagOf(j, "type"))
             c == ContentOf(j, "type")
         IN IF ~variant.ok THEN Err
            ELSE CASE variant.v = "idle" ->
                        IF IsUnitContent(c) THEN Ok([t |-> "Idle"]) ELSE Err
                   [] variant.v = "busy" ->
                        IF IsUnitContent(c) THEN Ok([t |-> "Busy"]) ELSE Err
                   [] variant.v = "retry" -> DeRetry(c)

(***************************************************************************)
(* PermissionRequest, QuestionRequest                                      *)
(***************************************************************************)
DeVecString(j) == DeVec(j, [i \in 1..Len(Elements(j)) |-> DeString(j.a[i])])

\* struct PermissionRequest { id, session_id, permission, patterns, metadata }
DePermissionRequest(j) ==
    IF ~IsStruct(j, 5) THEN Err
    ELSE LET id == Required(Field(j, "id", 1),
                 DeString(Field(j, "id", 1)))
             session_id == Required(Field(j, "sessionID", 2),
                 DeString(Field(j, "sessionID", 2)))
             permission == DefaultOption(Field(j, "permission", 3),
                 DeString(Field(j, "permission", 3)))
             patterns == Default(Field(j, "patterns", 4),
                 DeVecString(Field(j, "patterns", 4)), <<>>)
             metadata == Default(Field(j, "metadata", 5),
                 DeMap(Field(j, "metadata", 5)), <<>>)
         IN IF id.ok /\ session_id.ok /\ permission.ok /\ patterns.ok /\ metadata.ok
            THEN Ok([id |-> id.v, session_id |-> session_id.v,
                     permission |-> permission.v, patterns |-> patterns.v,
                     metadata |-> metadata.v])
            ELSE Err

\* struct QuestionOption { label, description: Option<String> }
DeQuestionOption(j) ==
    IF ~IsStruct(j, 2) THEN Err
    ELSE LET label == Required(Field(j, "label", 1),
                 DeString(Field(j, "label", 1)))
             description == DefaultOption(Field(j, "description", 2),
                 DeString(Field(j, "description", 2)))
         IN IF label.ok /\ description.ok
            THEN Ok([label |-> label.v, description |-> description.v])
            ELSE Err

DeVecQuestionOption(j) ==
    DeVec(j, [i \in 1..Len(Elements(j)) |-> DeQuestionOption(j.a[i])])

\* struct QuestionInfo { question, header, options }
DeQuestionInfo(j) ==
    IF ~IsStruct(j, 3) THEN Err
    ELSE LET question == DefaultOption(Field(j, "question", 1),
                 DeString(Field(j, "question", 1)))
             header == DefaultOption(Field(j, "header", 2),
                 DeString(Field(j, "header", 2)))
             options == Default(Field(j, "options", 3),
                 DeVecQuestionOption(Field(j, "options", 3)), <<>>)
         IN IF question.ok /\ header.ok /\ options.ok
            THEN Ok([question |-> question.v, header |-> header.v,
                     options |-> options.v])
            ELSE Err

DeVecQuestionInfo(j) ==
    DeVec(j, [i \in 1..Len(Elements(j)) |-> DeQuestionInfo(j.a[i])])

\* struct QuestionRequest { id, session_id, questions }
DeQuestionRequest(j) ==
    IF ~IsStruct(j, 3) THEN Err
    ELSE LET id == Required(Field(j, "id", 1),
                 DeString(Field(j, "id", 1)))
             session_id == Required(Field(j, "sessionID", 2),
                 DeString(Field(j, "sessionID", 2)))
             questions == Default(Field(j, "questions", 3),
                 DeVecQuestionInfo(Field(j, "questions", 3)), <<>>)
         IN IF id.ok /\ session_id.ok /\ questions.ok
            THEN Ok([id |-> id.v, session_id |-> session_id.v,
                     questions |-> questions.v])
            ELSE Err

(***************************************************************************)
(* Properties structs for each event type                                  *)
(***************************************************************************)
DeMessageUpdatedProps(j) ==
    IF ~IsStruct(j, 1) THEN Err
    ELSE LET info == DefaultOption(Field(j, "info", 1),
                 DeMessageInfo(Field(j, "info", 1)))
         IN IF info.ok THEN Ok([info |-> info.v]) ELSE Err

DeMessagePartUpdatedProps(j) ==
    IF ~IsStruct(j, 2) THEN Err
    ELSE LET part == Required(Field(j, "part", 1),
                 DePart(Field(j, "part", 1)))
             delta == DefaultOption(Field(j, "delta", 2),
                 DeString(Field(j, "delta", 2)))
         IN IF part.ok /\ delta.ok
            THEN Ok([part |-> part.v, delta |-> delta.v])
            ELSE Err

DeSessionIdProps(j) ==
    IF ~IsStruct(j, 1) THEN Err
    ELSE LET session_id == Required(Field(j, "sessionID", 1),
                 DeString(Field(j, "sessionID", 1)))
         IN IF session_id.ok THEN Ok([session_id |-> session_id.v]) ELSE Err

DeSessionErrorProps(j) ==
    IF ~IsStruct(j, 2) THEN Err
    ELSE LET session_id == DefaultOption(Field(j, "sessionID", 1),
                 DeString(Field(j, "sessionID", 1)))
             error == DefaultOption(Field(j, "error", 2),
                 DeValue(Field(j, "error", 2)))
         IN IF session_id.ok /\ error.ok
            THEN Ok([session_id |-> session_id.v, error |-> error.v])
            ELSE Err

\* #[derive(Default)] for SessionErrorProps
SessionErrorPropsDefault == [session_id |-> None, error |-> None]

DeSessionStatusProps(j) ==
    IF ~IsStruct(j, 2) THEN Err
    ELSE LET session_id == Required(Field(j, "sessionID", 1),
                 DeString(Field(j, "sessionID", 1)))
             status == Required(Field(j, "status", 2),
                 DeSessionStatusPayload(Field(j, "status", 2)))
         IN IF session_id.ok /\ status.ok
            THEN Ok([session_id |-> session_id.v, status |-> status.v])
            ELSE Err

DePermissionRepliedProps(j) ==
    IF ~IsStruct(j, 3) THEN Err
    ELSE LET session_id == Required(Field(j, "sessionID", 1),
                 DeString(Field(j, "sessionID", 1)))
             request_id == Required(Field(j, "requestID", 2),
                 DeString(Field(j, "requestID", 2)))
             reply == Required(Field(j, "reply", 3),
                 DeString(Field(j, "reply", 3)))
         IN IF session_id.ok /\ request_id.ok /\ reply.ok
            THEN Ok([session_id |-> session_id.v, request_id |-> request_id.v,
                     reply |-> reply.v])
            ELSE Err

DeQuestionRepliedProps(j) ==
    IF ~IsStruct(j, 2) THEN Err
    ELSE LET session_id == Required(Field(j, "sessionID", 1),
                 DeString(Field(j, "sessionID", 1)))
             request_id == Required(Field(j, "requestID", 2),
                 DeString(Field(j, "requestID", 2)))
         IN IF session_id.ok /\ request_id.ok
            THEN Ok([session_id |-> session_id.v, request_id |-> request_id.v])
            ELSE Err

(***************************************************************************)
(* enum SseEvent and SseEvent::from_envelope                               *)
(***************************************************************************)
Unknown(s) == [t |-> "Unknown", s |-> s]

MessageUpdatedArm(props) ==
    LET r == DeMessageUpdatedProps(props)
    IN [t |-> "MessageUpdated", info |-> IF r.ok THEN r.v.info ELSE None]

MessagePartUpdatedArm(props) ==
    LET r == DeMessagePartUpdatedProps(props)
    IN IF r.ok
       THEN [t |-> "MessagePartUpdated", part |-> r.v.part, delta |-> r.v.delta]
       ELSE Unknown("message.part.updated (parse error)")

\* mutant: a failed parse falls back to a default, as unwrap_or_default would
SessionIdleArm_Default(props) ==
    LET r == DeSessionIdProps(props)
    IN [t |-> "SessionIdle", session_id |-> IF r.ok THEN r.v.session_id ELSE ""]

SessionIdleArm(props) ==
    LET r == DeSessionIdProps(props)
    IN IF r.ok
       THEN [t |-> "SessionIdle", session_id |-> r.v.session_id]
       ELSE Unknown("session.idle (parse error)")

\* mutant: unwrap() in place of unwrap_or_default(): a failed parse panics
SessionErrorArm_Unwrap(props) ==
    LET r == DeSessionErrorProps(props)
    IN IF r.ok
       THEN [t |-> "SessionError", session_id |-> r.v.session_id, error |-> r.v.error]
       ELSE [t |-> "panic"]

SessionErrorArm(props) ==
    LET r == DeSessionErrorProps(props)
        p == IF r.ok THEN r.v ELSE SessionErrorPropsDefault
    IN [t |-> "SessionError", session_id |-> p.session_id, error |-> p.error]

SessionStatusArm(props) ==
    LET r == DeSessionStatusProps(props)
    IN IF r.ok
       THEN [t |-> "SessionStatus", session_id |-> r.v.session_id,
             status |-> r.v.status]
       ELSE Unknown("session.status (parse error)")

PermissionAskedArm(props) ==
    LET r == DePermissionRequest(props)
    IN IF r.ok
       THEN [t |-> "PermissionAsked", request |-> r.v]
       ELSE Unknown("permission.asked (parse error)")

\* mutant: the two identifiers are assigned to each other's field
PermissionRepliedArm_Swapped(props) ==
    LET r == DePermissionRepliedProps(props)
    IN IF r.ok
       THEN [t |-> "PermissionReplied", session_id |-> r.v.request_id,
             request_id |-> r.v.session_id, reply |-> r.v.reply]
       ELSE Unknown("permission.replied (parse error)")

PermissionRepliedArm(props) ==
    LET r == DePermissionRepliedProps(props)
    IN IF r.ok
       THEN [t |-> "PermissionReplied", session_id |-> r.v.session_id,
             request_id |-> r.v.request_id, reply |-> r.v.reply]
       ELSE Unknown("permission.replied (parse error)")

QuestionAskedArm(props) ==
    LET r == DeQuestionRequest(props)
    IN IF r.ok
       THEN [t |-> "QuestionAsked", request |-> r.v]
       ELSE Unknown("question.asked (parse error)")

QuestionRepliedArm(props) ==
    LET r == DeQuestionRepliedProps(props)
    IN IF r.ok
       THEN [t |-> "QuestionReplied", session_id |-> r.v.session_id,
             request_id |-> r.v.request_id]
       ELSE Unknown("question.replied (parse error)")

\* mutant: the unrecognized type is replaced by a fixed label
OtherArm_Label(other) == Unknown("unknown")

\* the `other => SseEvent::Unknown(other.to_string())` arm
OtherArm(other) == Unknown(other)

from_envelope(env) ==
    LET props == env.properties
    IN CASE env.event_type = "message.updated" -> MessageUpdatedArm(props)
         [] env.event_type = "message.part.updated" -> MessagePartUpdatedArm(props)
         [] env.event_type = "session.idle" -> SessionIdleArm(props)
         [] env.event_type = "session.error" -> SessionErrorArm(props)
         [] env.event_type = "session.status" -> SessionStatusArm(props)
         [] env.event_type = "permission.asked" -> PermissionAskedArm(props)
         [] env.event_type = "permission.replied" -> PermissionRepliedArm(props)
         [] env.event_type = "question.asked" -> QuestionAskedArm(props)
         [] env.event_type = "question.replied" -> QuestionRepliedArm(props)
         [] OTHER -> OtherArm(env.event_type)

(***************************************************************************)
(* Request types and their derived Serialize (serde_json::to_value)        *)
(***************************************************************************)
\* Serialize for Option<String> and Option<bool>: None is null
SerOptString(opt) == IF opt = None THEN JNull ELSE JStr(opt.v)

SerOptBool(opt) == IF opt = None THEN JNull ELSE JBool(opt.v)

\* mutant: the skip_serializing_if attribute is missing
SkipNone_Never(opt, j) == j

\* #[serde(skip_serializing_if = "Option::is_none")]: the field, serialized
\* as j, is not written when the option is None
SkipNone(opt, j) == IF opt = None THEN Absent ELSE j

\* struct CreateSessionRequest { title }
SerCreateSessionRequest(r) ==
    Strip([title |-> SkipNone(r.title, SerOptString(r.title))])

\* enum PartInput, tag = "type", rename_all = "snake_case"
SerPartInput(part) ==
    CASE part.t = "Text" ->
           Strip([type |-> JStr("text"), text |-> JStr(part.text),
                  synthetic |-> SkipNone(part.synthetic, SerOptBool(part.synthetic))])
      [] part.t = "File" ->
           Strip([type |-> JStr("file"), mime |-> JStr(part.mime), url |-> JStr(part.url),
                  filename |-> SkipNone(part.filename, SerOptString(part.filename))])

\* struct ModelParam, rename_all = "camelCase"
SerModelParam(m) ==
    JObj([providerId |-> JStr(m.provider_id), modelId |-> JStr(m.model_id)])

SerOptModelParam(opt) == IF opt = None THEN JNull ELSE SerModelParam(opt.v)

\* struct SendPromptRequest { parts, system, model, agent }
SerSendPromptRequest(r) ==
    Strip([parts |-> JArr([i \in 1..Len(r.parts) |-> SerPartInput(r.parts[i])]),
           system |-> SkipNone(r.system, SerOptString(r.system)),
           model |-> SkipNone(r.model, SerOptModelParam(r.model)),
           agent |-> SkipNone(r.agent, SerOptString(r.agent))])

\* enum PermissionReply, rename_all = "snake_case"
SerPermissionReply(reply) ==
    CASE reply = "Once" -> JStr("once")
      [] reply = "Always" -> JStr("always")
      [] reply = "Reject" -> JStr("reject")

\* struct PermissionReplyRequest { reply, message }
SerPermissionReplyRequest(r) ==
    Strip([reply |-> SerPermissionReply(r.reply),
           message |-> SkipNone(r.message, SerOptString(r.message))])

\* struct QuestionAnswer { label, description }
SerQuestionAnswer(a) ==
    Strip([label |-> JStr(a.label),
           description |-> SkipNone(a.description, SerOptString(a.description))])

\* struct QuestionReplyRequest { answers }
SerQuestionReplyRequest(r) ==
    JObj([answers |-> JArr([i \in 1..Len(r.answers) |-> SerQuestionAnswer(r.answers[i])])])

\* the request body sent for a request value
to_value(r) ==
    CASE r.t = "CreateSessionRequest" -> SerCreateSessionRequest(r)
      [] r.t = "SendPromptRequest" -> SerSendPromptRequest(r)
      [] r.t = "PermissionReplyRequest" -> SerPermissionReplyRequest(r)
      [] r.t = "QuestionReplyRequest" -> SerQuestionReplyRequest(r)

(***************************************************************************)
(* The envelopes classified: every event type below with every properties  *)
(* value of its family, and with the values any type may carry.            *)
(***************************************************************************)
RecognizedTypes ==
    {"message.updated", "message.part.updated", "session.idle", "session.error",
     "session.status", "permission.asked", "permission.replied",
     "question.asked", "question.replied"}

OtherTypes ==
    {"foo.bar", "", "session.Idle", "session.idle ", "session", "server.connected",
     "session.idle (parse error)", "message.part.removed"}

EventTypes == RecognizedTypes \cup OtherTypes

\* properties of no particular shape; JNull is also what an envelope
\* without properties holds (#[serde(default)])
AnyProps ==
    {JNull, JStr("s1"), JNum(3), JBool(TRUE), EmptyObj, JArr(<<>>),
     JArr(<<JStr("s1")>>), JArr(<<JStr("s1"), JStr("r1")>>),
     JArr(<<JStr("s1"), JStr("r1"), JStr("once")>>),
     JArr(<<JStr("s1"), JStr("r1"), JStr("once"), JNull>>),
     JArr(<<JNum(3)>>), JArr(<<JNull>>)}

SessionIdVals == {Absent, JNull, JStr("s1"), JStr("s2"), JStr(""), JNum(3)}

SessionIdPropsIn ==
    {Strip(r) : r \in [sessionID : SessionIdVals, extra : {Absent, JStr("x")}]}

RepliedPropsIn ==
    {Strip(r) : r \in [sessionID : {Absent, JStr("s1"), JNum(3)},
                       requestID : {Absent, JStr("r1"), JNull},
                       reply : {Absent, JStr("once"), JStr("always"), JBool(TRUE)}]}

SessionErrorPropsIn ==
    {Strip(r) : r \in [sessionID : {Absent, JNull, JStr("s1"), JNum(3)},
                       error : {Absent, JNull, JStr("boom"),
                                JObj([name |-> JStr("ProviderAuthError")]),
                                JNum(3)}]}

StatusIn ==
    {Absent, JNull, JStr("idle"), JArr(<<JStr("idle")>>),
     JArr(<<JStr("retry"), JNum(3)>>), JArr(<<JStr("busy"), JNum(3)>>)}
    \cup {Strip(r) : r \in [type : {Absent, JStr("idle"), JStr("busy"), JStr("retry"),
                                    JStr("Retry"), JStr("bogus"), JNum(2), JNull},
                            attempt : {Absent, JNum(0), JNum(3), JNum(-1), JBig,
                                       JFloat("3.5"), JStr("3"), JNull},
                            message : {Absent, JNull, JStr("rate limited"), JNum(3)}]}

SessionStatusPropsIn ==
    {Strip(r) : r \in [sessionID : {Absent, JStr("s2"), JNum(3)}, status : StatusIn]}

TimeIn ==
    {Absent, JNull, EmptyObj, JStr("now"),
     JObj([start |-> JNum(1)]), JObj([start |-> JFloat("1.5"), end |-> JBig]),
     JObj([start |-> JStr("x")]), JObj([end |-> JNull])}

MessageInfoIn ==
    {Absent, JNull, JStr("m1"), JArr(<<JStr("m1"), JStr("user")>>)}
    \cup {Strip(r) : r \in [id : {Absent, JStr("m1"), JNum(3)},
                            role : {Absent, JStr("user"), JStr("assistant"), JNull},
                            sessionID : {Absent, JNull, JStr("s1"), JNum(3)},
                            time : TimeIn]}

MessageUpdatedPropsIn ==
    {Strip(r) : r \in [info : MessageInfoIn, extra : {Absent, JStr("x")}]}

PermissionRequestIn ==
    {Strip(r) : r \in [id : {Absent, JStr("perm1"), JNum(3)},
                       sessionID : {Absent, JStr("s1"), JNull},
                       permission : {Absent, JNull, JStr("bash"), JNum(3)},
                       patterns : {Absent, JNull, JArr(<<>>), JArr(<<JStr("*.rs")>>),
                                   JArr(<<JStr("a"), JStr("b")>>), JArr(<<JNum(3)>>),
                                   JStr("*")},
                       metadata : {Absent, JNull, EmptyObj,
                                   JObj([cmd |-> JStr("ls")]), JArr(<<>>)}]}

QuestionOptionsIn ==
    {Absent, JNull, JArr(<<>>), JArr(<<JObj([label |-> JStr("yes")])>>),
     JArr(<<JObj([label |-> JStr("yes"), description |-> JStr("go")]),
            JObj([label |-> JStr("no"), description |-> JNull])>>),
     JArr(<<EmptyObj>>), JArr(<<JObj([label |-> JNum(3)])>>), JArr(<<JStr("yes")>>)}

QuestionInfoIn ==
    {Strip(r) : r \in [question : {Absent, JStr("ok?"), JNum(3)},
                       header : {Absent, JNull, JStr("h")},
                       options : QuestionOptionsIn]}
    \cup {JNull, JStr("ok?")}

QuestionsIn ==
    {Absent, JNull, JArr(<<>>), EmptyObj}
    \cup {JArr(<<q>>) : q \in QuestionInfoIn}
    \cup {JArr(<<JObj([question |-> JStr("a")]), JObj([question |-> JStr("b")])>>)}

QuestionRequestIn ==
    {Strip(r) : r \in [id : {Absent, JStr("q1"), JNum(3)},
                       sessionID : {Absent, JStr("s1"), JNull},
                       questions : QuestionsIn]}

ToolStatusVals ==
    {Absent, JStr("pending"), JStr("running"), JStr("completed"), JStr("error"),
     JStr("bogus"), JStr("Running"), JStr(""), JNull, JBool(TRUE),
     JNum(0), JNum(1), JNum(2), JNum(3), JNum(4), JNum(-1), JBig, JFloat("1.0")}

ToolStateIn ==
    {Absent, JNull, JStr("running"), EmptyObj, JArr(<<JStr("pending")>>)}
    \cup {Strip(r) : r \in [status : ToolStatusVals,
                            title : {Absent, JStr("ls"), JNum(3)}]}
    \cup {Strip(r) : r \in [status : {JStr("pending"), JStr("running"),
                                      JStr("completed"), JStr("error")},
                            output : {Absent, JStr("done")},
                            input : {Absent, JNull, JObj([command |-> JStr("ls")])},
                            metadata : {Absent, JNull, JObj([n |-> JNum(1)]), JStr("m")},
                            error : {Absent, JStr("failed"), JNum(3)}]}

PartIdVals == {Absent, JStr("p1"), JNum(3)}

PartIn ==
    {Absent, JNull, JStr("text"), EmptyObj, JObj([id |-> JStr("p1")])}
    \cup {Strip(r) : r \in [type : {JStr("tool")}, id : {JStr("p1")},
                            tool : {JStr("bash")}, state : ToolStateIn]}
    \cup {Strip(r) : r \in [type : {JStr("tool")}, id : PartIdVals,
                            tool : {Absent, JStr("bash"), JNull},
                            callID : {Absent, JStr("c1"), JNum(3)},
                            state : {Absent, JNull,
                                     JObj([status |-> JStr("pending")]),
                                     JObj([status |-> JStr("bogus")])}]}
    \cup {Strip(r) : r \in [type : {JStr("text")}, id : PartIdVals,
                            sessionID : {Absent, JStr("s1")},
                            messageID : {Absent, JNull},
                            text : {Absent, JStr("hello"), JNull},
                            time : TimeIn]}
    \cup {Strip(r) : r \in [type : {JStr("step-start"), JStr("step-finish"),
                                    JStr("reasoning"), JStr("file"), JStr("Tool"),
                                    JStr(""), JNum(1), JNull},
                            id : PartIdVals,
                            sessionID : {Absent, JStr("s1"), JNum(3)},
                            reason : {Absent, JStr("stop"), JNum(3)}]}

MessagePartUpdatedPropsIn ==
    {Strip(r) : r \in [part : PartIn, delta : {Absent, JStr("he")}]}
    \cup {Strip(r) : r \in [part : {JObj([type |-> JStr("text"), id |-> JStr("p1")]),
                                    JObj([type |-> JStr("text")])},
                            delta : {JNull, JNum(3)}]}
    \cup {JArr(<<JObj([type |-> JStr("text"), id |-> JStr("p1")]), JStr("he")>>)}

\* the properties values written for an event type
PropsFor(type) ==
    AnyProps \cup
    CASE type = "message.updated" -> MessageUpdatedPropsIn
      [] type = "message.part.updated" -> MessagePartUpdatedPropsIn
      [] type = "session.idle" -> SessionIdPropsIn
      [] type = "session.error" -> SessionErrorPropsIn
      [] type = "session.status" -> SessionStatusPropsIn
      [] type = "permission.asked" -> PermissionRequestIn
      [] type = "permission.replied" -> RepliedPropsIn
      [] type = "question.asked" -> QuestionRequestIn
      [] type = "question.replied" -> RepliedPropsIn
      [] OTHER -> SessionIdPropsIn

Envelopes ==
    UNION {{[event_type |-> type, properties |-> props] : props \in PropsFor(type)} :
           type \in EventTypes}

NoEnvelope == [event_type |-> "", properties |-> Absent]
NoEvent == [t |-> "none"]
NoRequest == [t |-> "none"]
NoBody == Absent
NoReturn == "none"

\* the texts of the warn! calls of the write methods
WarningTexts ==
    {"failed to persist user message", "failed to persist bot message",
     "failed to persist compaction summary", "failed to archive transcript"}

NotLoaded == [channel_id |-> "", limit |-> 0, result |-> Err, called |-> FALSE]

(***************************************************************************)
(* The state machine of the event classification: an envelope arrives      *)
(* from the transport and from_envelope classifies it.                     *)
(***************************************************************************)
SseInit ==
    /\ envelope = NoEnvelope
    /\ event = NoEvent
    /\ delivered = <<>>

\* the transport hands over the next envelope
Receive ==
    /\ envelope = NoEnvelope
    /\ envelope' \in Envelopes
    /\ event' = NoEvent

\* SseEvent::from_envelope(envelope)
Classify ==
    /\ envelope # NoEnvelope
    /\ event = NoEvent
    /\ event' = from_envelope(envelope)
    /\ UNCHANGED envelope

\* the caller has matched on the event and dropped it
Consume ==
    /\ event # NoEvent
    /\ envelope' = NoEnvelope
    /\ event' = NoEvent

ReqInit ==
    /\ request = NoRequest
    /\ body = NoBody

LogInit ==
    /\ db = {}
    /\ tasks = {}
    /\ warnings = [w \in WarningTexts |-> 0]
    /\ clock = 0
    /\ nextId = 1
    /\ returned = NoReturn
    /\ loaded = NotLoaded

Init == SseInit /\ ReqInit /\ LogInit

SseNext ==
    \/ Receive /\ UNCHANGED <<delivered, reqVars, logVars>>
    \/ Classify /\ UNCHANGED <<delivered, reqVars, logVars>>
    \/ Consume /\ UNCHANGED <<delivered, reqVars, logVars>>

SpecSse == Init /\ [][SseNext]_vars

(***************************************************************************)
(* Properties of the classification                                        *)
(***************************************************************************)
\* from_envelope has returned for the current envelope
Classified == event # NoEvent

IsObj(j) == j.k = "obj"
Has(j, key) == j.k = "obj" /\ key \in DOMAIN j.o
HasStr(j, key) == Has(j, key) /\ j.o[key].k = "str"
HasObj(j, key) == Has(j, key) /\ j.o[key].k = "obj"
\* the key is missing, null or a string
OptStrOk(j, key) == ~Has(j, key) \/ j.o[key].k \in {"null", "str"}
OptStr(j, key) ==
    IF ~Has(j, key) \/ j.o[key] = JNull THEN None ELSE Some(j.o[key].s)

ParseError(type) == Unknown(type \o " (parse error)")

KnownPartTypes == {"text", "tool", "step-start", "step-finish"}
KnownStatuses == {"pending", "running", "completed", "error"}

\* a question whose option object has no label
OptionLacksLabel(q) ==
    /\ Has(q, "options")
    /\ q.o["options"].k = "arr"
    /\ \E i \in 1..Len(q.o["options"].a) :
          IsObj(q.o["options"].a[i]) /\ ~Has(q.o["options"].a[i], "label")

PartLacksRequired(part) ==
    \/ ~Has(part, "type")
    \/ /\ HasStr(part, "type")
       /\ part.o["type"].s \in KnownPartTypes
       /\ ~Has(part, "id")
    \/ /\ HasStr(part, "type")
       /\ part.o["type"].s = "tool"
       /\ HasObj(part, "state")
       /\ ~Has(part.o["state"], "status")

\* the properties object lacks a key its event type's schema requires, at
\* the top or in a nested object
MissingRequired(type, props) ==
    /\ IsObj(props)
    /\ CASE type = "session.idle" -> ~Has(props, "sessionID")
         [] type = "permission.replied" ->
              ~Has(props, "sessionID") \/ ~Has(props, "requestID") \/ ~Has(props, "reply")
         [] type = "question.replied" ->
              ~Has(props, "sessionID") \/ ~Has(props, "requestID")
         [] type = "session.status" ->
              \/ ~Has(props, "sessionID")
              \/ ~Has(props, "status")
              \/ HasObj(props, "status") /\ ~Has(props.o["status"], "type")
         [] type = "permission.asked" -> ~Has(props, "id") \/ ~Has(props, "sessionID")
         [] type = "question.asked" ->
              \/ ~Has(props, "id")
              \/ ~Has(props, "sessionID")
              \/ /\ Has(props, "questions")
                 /\ props.o["questions"].k = "arr"
                 /\ \E i \in 1..Len(props.o["questions"].a) :
                       /\ IsObj(props.o["questions"].a[i])
                       /\ OptionLacksLabel(props.o["questions"].a[i])
         [] type = "message.part.updated" ->
              \/ ~Has(props, "part")
              \/ HasObj(props, "part") /\ PartLacksRequired(props.o["part"])
         [] type = "message.updated" ->
              /\ HasObj(props, "info")
              /\ ~Has(props.o["info"], "id") \/ ~Has(props.o["info"], "role")
         [] OTHER -> FALSE

C2_UnknownVerbatim ==
    (Classified /\ envelope.event_type \notin RecognizedTypes)
    => event = Unknown(envelope.event_type)

\* an event type that differs from a recognized one by a trailing space,
\* with well-formed session.idle properties, has been classified
C2_Witness ==
    /\ Classified
    /\ envelope.event_type = "session.idle "
    /\ HasStr(envelope.properties, "sessionID")
    /\ event.t = "Unknown"

\* the value an optional key of any JSON type is read as
OptValue(j, key) ==
    IF ~Has(j, key) \/ j.o[key] = JNull THEN None ELSE Some(j.o[key])

IsNumber(j) == j.k \in {"num", "big", "float"}

\* absent, null, or an object whose start and end are absent, null or numbers
TimeOk(j, key) ==
    \/ ~Has(j, key)
    \/ j.o[key] = JNull
    \/ /\ HasObj(j, key)
       /\ \A f \in {"start", "end"} :
             ~Has(j.o[key], f) \/ j.o[key].o[f] = JNull \/ IsNumber(j.o[key].o[f])

TimeOf(j, key) ==
    IF ~Has(j, key) \/ j.o[key] = JNull THEN None
    ELSE Some([start |-> OptValue(j.o[key], "start"), end |-> OptValue(j.o[key], "end")])

\* absent, null, or an object
OptMapOk(j, key) == ~Has(j, key) \/ j.o[key].k \in {"null", "obj"}
OptMap(j, key) ==
    IF ~Has(j, key) \/ j.o[key] = JNull THEN None ELSE Some(j.o[key].o)

\* the wire schema of MessageInfo
InfoOk(info) ==
    /\ HasStr(info, "id") /\ HasStr(info, "role")
    /\ OptStrOk(info, "sessionID") /\ TimeOk(info, "time")

\* the wire schema of a tool state
StateOk(st) ==
    /\ HasStr(st, "status") /\ st.o["status"].s \in KnownStatuses
    /\ OptStrOk(st, "title") /\ OptStrOk(st, "output") /\ OptStrOk(st, "error")
    /\ OptMapOk(st, "metadata")

StateOf(st) ==
    LET status == st.o["status"].s
    IN CASE status = "pending" -> [t |-> "Pending", input |-> OptValue(st, "input")]
         [] status = "running" ->
              [t |-> "Running", input |-> OptValue(st, "input"),
               title |-> OptStr(st, "title"), metadata |-> OptMap(st, "metadata")]
         [] status = "completed" ->
              [t |-> "Completed", input |-> OptValue(st, "input"),
               output |-> OptStr(st, "output"), title |-> OptStr(st, "title"),
               metadata |-> OptMap(st, "metadata")]
         [] status = "error" ->
              [t |-> "Error", input |-> OptValue(st, "input"),
               error |-> OptStr(st, "error")]

\* the wire schema of a part of one of the four known types
PartOk(part) ==
    /\ HasStr(part, "type") /\ part.o["type"].s \in KnownPartTypes
    /\ HasStr(part, "id") /\ OptStrOk(part, "sessionID")
    /\ CASE part.o["type"].s = "text" ->
              /\ OptStrOk(part, "messageID") /\ TimeOk(part, "time")
              /\ ~Has(part, "text") \/ HasStr(part, "text")
         [] part.o["type"].s = "tool" ->
              /\ OptStrOk(part, "messageID") /\ OptStrOk(part, "callID")
              /\ OptStrOk(part, "tool")
              /\ \/ ~Has(part, "state")
                 \/ part.o["state"] = JNull
                 \/ HasObj(part, "state") /\ StateOk(part.o["state"])
         [] part.o["type"].s = "step-start" -> TRUE
         [] part.o["type"].s = "step-finish" -> OptStrOk(part, "reason")

PartOf(part) ==
    LET type == part.o["type"].s
        id == part.o["id"].s
        session_id == OptStr(part, "sessionID")
    IN CASE type = "text" ->
              [t |-> "Text", id |-> id, session_id |-> session_id,
               message_id |-> OptStr(part, "messageID"),
               text |-> IF Has(part, "text") THEN part.o["text"].s ELSE "",
               time |-> TimeOf(part, "time")]
         [] type = "tool" ->
              [t |-> "Tool", id |-> id, session_id |-> session_id,
               message_id |-> OptStr(part, "messageID"),
               call_id |-> OptStr(part, "callID"), tool |-> OptStr(part, "tool"),
               state |-> IF ~Has(part, "state") \/ part.o["state"] = JNull THEN None
                         ELSE Some(StateOf(part.o["state"]))]
         [] type = "step-start" ->
              [t |-> "StepStart", id |-> id, session_id |-> session_id]
         [] type = "step-finish" ->
              [t |-> "StepFinish", id |-> id, session_id |-> session_id,
               reason |-> OptStr(part, "reason")]

\* the wire schema of a session status
StatusOk(st) ==
    /\ HasStr(st, "type") /\ st.o["type"].s \in {"idle", "busy", "retry"}
    /\ st.o["type"].s = "retry" =>
          /\ ~Has(st, "attempt") \/ (st.o["attempt"].k = "num" /\ st.o["attempt"].n >= 0)
          /\ OptStrOk(st, "message")

StatusOf(st) ==
    CASE st.o["type"].s = "idle" -> [t |-> "Idle"]
      [] st.o["type"].s = "busy" -> [t |-> "Busy"]
      [] st.o["type"].s = "retry" ->
           [t |-> "Retry",
            attempt |-> IF Has(st, "attempt") THEN st.o["attempt"].n ELSE 0,
            message |-> OptStr(st, "message")]

\* an array of strings
StringsOk(j) == j.k = "arr" /\ \A i \in 1..Len(j.a) : j.a[i].k = "str"
StringsOf(j) == [i \in 1..Len(j.a) |-> j.a[i].s]

OptionOk(o) == HasStr(o, "label") /\ OptStrOk(o, "description")

QuestionOk(q) ==
    /\ IsObj(q) /\ OptStrOk(q, "question") /\ OptStrOk(q, "header")
    /\ \/ ~Has(q, "options")
       \/ /\ q.o["options"].k = "arr"
          /\ \A i \in 1..Len(q.o["options"].a) : OptionOk(q.o["options"].a[i])

QuestionOf(q) ==
    [question |-> OptStr(q, "question"), header |-> OptStr(q, "header"),
     options |-> IF ~Has(q, "options") THEN <<>>
                 ELSE [i \in 1..Len(q.o["options"].a) |->
                         [label |-> q.o["options"].a[i].o["label"].s,
                          description |-> OptStr(q.o["options"].a[i], "description")]]]

\* the properties object is well-formed for its event type (spec section 6)
WellFormed(type, props) ==
    /\ IsObj(props)
    /\ CASE type = "message.updated" ->
              \/ ~Has(props, "info")
              \/ props.o["info"] = JNull
              \/ HasObj(props, "info") /\ InfoOk(props.o["info"])
         [] type = "message.part.updated" ->
              /\ HasObj(props, "part") /\ PartOk(props.o["part"])
              /\ OptStrOk(props, "delta")
         [] type = "session.idle" -> HasStr(props, "sessionID")
         [] type = "session.error" -> OptStrOk(props, "sessionID")
         [] type = "session.status" ->
              /\ HasStr(props, "sessionID")
              /\ HasObj(props, "status") /\ StatusOk(props.o["status"])
         [] type = "permission.asked" ->
              /\ HasStr(props, "id") /\ HasStr(props, "sessionID")
              /\ OptStrOk(props, "permission")
              /\ ~Has(props, "patterns") \/ StringsOk(props.o["patterns"])
              /\ ~Has(props, "metadata") \/ HasObj(props, "metadata")
         [] type = "permission.replied" ->
              HasStr(props, "sessionID") /\ HasStr(props, "requestID")
              /\ HasStr(props, "reply")
         [] type = "question.asked" ->
              /\ HasStr(props, "id") /\ HasStr(props, "sessionID")
              /\ \/ ~Has(props, "questions")
                 \/ /\ props.o["questions"].k = "arr"
                    /\ \A i \in 1..Len(props.o["questions"].a) :
                          QuestionOk(props.o["questions"].a[i])
         [] type = "question.replied" ->
              HasStr(props, "sessionID") /\ HasStr(props, "requestID")
         [] OTHER -> FALSE

\* the event whose fields are the fields of the well-formed properties
EventOf(type, props) ==
    CASE type = "message.updated" ->
           [t |-> "MessageUpdated",
            info |-> IF ~HasObj(props, "info") THEN None
                     ELSE LET info == props.o["info"]
                          IN Some([id |-> info.o["id"].s, role |-> info.o["role"].s,
                                   session_id |-> OptStr(info, "sessionID"),
                                   time |-> TimeOf(info, "time")])]
      [] type = "message.part.updated" ->
           [t |-> "MessagePartUpdated", part |-> PartOf(props.o["part"]),
            delta |-> OptStr(props, "delta")]
      [] type = "session.idle" ->
           [t |-> "SessionIdle", session_id |-> props.o["sessionID"].s]
      [] type = "session.error" ->
           [t |-> "SessionError", session_id |-> OptStr(props, "sessionID"),
            error |-> OptValue(props, "error")]
      [] type = "session.status" ->
           [t |-> "SessionStatus", session_id |-> props.o["sessionID"].s,
            status |-> StatusOf(props.o["status"])]
      [] type = "permission.asked" ->
           [t |-> "PermissionAsked",
            request |-> [id |-> props.o["id"].s, session_id |-> props.o["sessionID"].s,
                         permission |-> OptStr(props, "permission"),
                         patterns |-> IF Has(props, "patterns")
                                      THEN StringsOf(props.o["patterns"]) ELSE <<>>,
                         metadata |-> IF Has(props, "metadata")
                                      THEN props.o["metadata"].o ELSE <<>>]]
      [] type = "permission.replied" ->
           [t |-> "PermissionReplied", session_id |-> props.o["sessionID"].s,
            request_id |-> props.o["requestID"].s, reply |-> props.o["reply"].s]
      [] type = "question.asked" ->
           [t |-> "QuestionAsked",
            request |-> [id |-> props.o["id"].s, session_id |-> props.o["sessionID"].s,
                         questions |-> IF ~Has(props, "questions") THEN <<>>
                                       ELSE [i \in 1..Len(props.o["questions"].a) |->
                                               QuestionOf(props.o["questions"].a[i])]]]
      [] type = "question.replied" ->
           [t |-> "QuestionReplied", session_id |-> props.o["sessionID"].s,
            request_id |-> props.o["requestID"].s]

\* C3: a recognized event type with well-formed properties is classified as
\* the variant of that type, each field equal to the properties' field of
\* that name (an omitted optional field None, an omitted attempt 0, an
\* omitted text or list empty).
C3_FieldsOfProperties ==
    (Classified /\ WellFormed(envelope.event_type, envelope.properties))
    => event = EventOf(envelope.event_type, envelope.properties)

\* spec scenario 4: session.status, retry with attempt 3 and no message
C3_Witness ==
    /\ envelope = [event_type |-> "session.status",
                   properties |-> JObj([sessionID |-> JStr("s2"),
                                        status |-> JObj([type |-> JStr("retry"),
                                                         attempt |-> JNum(3)])])]
    /\ event = [t |-> "SessionStatus", session_id |-> "s2",
                status |-> [t |-> "Retry", attempt |-> 3, message |-> None]]

IsOption(o) == o.opt \in {"None", "Some"}

\* e is a value of enum SseEvent: one of its ten variants, with that
\* variant's fields
IsSseEvent(e) ==
    CASE e.t = "MessageUpdated" -> DOMAIN e = {"t", "info"} /\ IsOption(e.info)
      [] e.t = "MessagePartUpdated" ->
           /\ DOMAIN e = {"t", "part", "delta"} /\ IsOption(e.delta)
           /\ e.part.t \in {"Text", "Tool", "StepStart", "StepFinish", "Other"}
      [] e.t = "SessionIdle" -> DOMAIN e = {"t", "session_id"}
      [] e.t = "SessionError" ->
           /\ DOMAIN e = {"t", "session_id", "error"}
           /\ IsOption(e.session_id) /\ IsOption(e.error)
      [] e.t = "SessionStatus" ->
           /\ DOMAIN e = {"t", "session_id", "status"}
           /\ e.status.t \in {"Idle", "Busy", "Retry"}
      [] e.t = "PermissionAsked" -> DOMAIN e = {"t", "request"}
      [] e.t = "PermissionReplied" ->
           DOMAIN e = {"t", "session_id", "request_id", "reply"}
      [] e.t = "QuestionAsked" -> DOMAIN e = {"t", "request"}
      [] e.t = "QuestionReplied" -> DOMAIN e = {"t", "session_id", "request_id"}
      [] e.t = "Unknown" -> DOMAIN e = {"t", "s"}
      [] OTHER -> FALSE

\* C4: from_envelope is total: whatever the event type and the properties
\* (null, a scalar, an array, an object of any shape), the call returns, and
\* what it returns is one SseEvent value.
C4_Total ==
    /\ envelope # NoEnvelope => IsSseEvent(from_envelope(envelope))
    /\ Classified => IsSseEvent(event)

\* properties that are no object, under an event type that tolerates every
\* failure, have been classified
C4_Witness ==
    /\ envelope = [event_type |-> "session.error", properties |-> JArr(<<JNum(3)>>)]
    /\ event = [t |-> "SessionError", session_id |-> None, error |-> None]

\* the part of the current message.part.updated envelope is a tool part
\* with a state object
ToolPartWithState ==
    /\ envelope.event_type = "message.part.updated"
    /\ HasObj(envelope.properties, "part")
    /\ HasStr(envelope.properties.o["part"], "type")
    /\ envelope.properties.o["part"].o["type"].s = "tool"
    /\ HasObj(envelope.properties.o["part"], "state")

StateIn == envelope.properties.o["part"].o["state"]

\* C5 as claimed: a tool part whose state has a status that is present and
\* is not one of pending, running, completed, error never yields a
\* MessagePartUpdated event: the envelope is classified
\* Unknown("message.part.updated (parse error)").
C5_AsClaimed ==
    (Classified /\ ToolPartWithState /\ Has(StateIn, "status")
        /\ ~(HasStr(StateIn, "status") /\ StateIn.o["status"].s \in KnownStatuses))
    => event = ParseError("message.part.updated")

\* the tool state the current event carries, if it carries one
HasToolState ==
    /\ event.t = "MessagePartUpdated"
    /\ event.part.t = "Tool"
    /\ event.part.state # None

ToolStateOut == event.part.state.v

\* C6: for a ToolState, status_str is one of the four labels, at most one of
\* is_running, is_completed, is_error holds, and each holds exactly when
\* status_str is its label.
C6_StatusPredicates ==
    HasToolState =>
        /\ status_str(ToolStateOut) \in KnownStatuses
        /\ ~(is_running(ToolStateOut) /\ is_completed(ToolStateOut))
        /\ ~(is_running(ToolStateOut) /\ is_error(ToolStateOut))
        /\ ~(is_completed(ToolStateOut) /\ is_error(ToolStateOut))
        /\ is_running(ToolStateOut) <=> status_str(ToolStateOut) = "running"
        /\ is_completed(ToolStateOut) <=> status_str(ToolStateOut) = "completed"
        /\ is_error(ToolStateOut) <=> status_str(ToolStateOut) = "error"
        /\ (~is_running(ToolStateOut) /\ ~is_completed(ToolStateOut)
              /\ ~is_error(ToolStateOut)) <=> status_str(ToolStateOut) = "pending"

\* an event carrying a ToolState::Error has been produced
C6_Witness ==
    /\ HasToolState
    /\ ToolStateOut.t = "Error"
    /\ is_error(ToolStateOut)

\* the part of the current message.part.updated envelope is a well-formed
\* tool part
WellFormedToolPart ==
    /\ envelope.event_type = "message.part.updated"
    /\ WellFormed(envelope.event_type, envelope.properties)
    /\ envelope.properties.o["part"].o["type"].s = "tool"

PartIn0 == envelope.properties.o["part"]

\* C8: a tool part without a state field is classified with state None, one
\* with state {status: pending} with state Some(Pending); an event whose
\* tool part has state None comes only from a part whose state is missing
\* or null, and one with a state (Pending or another) only from a part
\* that has a state.
C8_NoneIsNotPending ==
    Classified =>
        /\ (WellFormedToolPart /\ ~Has(PartIn0, "state")) =>
              /\ event.t = "MessagePartUpdated"
              /\ event.part.t = "Tool"
              /\ event.part.state = None
        /\ (WellFormedToolPart /\ HasObj(PartIn0, "state")
               /\ PartIn0.o["state"].o["status"] = JStr("pending")) =>
              /\ event.t = "MessagePartUpdated"
              /\ event.part.t = "Tool"
              /\ event.part.state # None
              /\ event.part.state.v.t = "Pending"
        /\ (envelope.event_type = "message.part.updated"
               /\ HasObj(envelope.properties, "part")
               /\ event.t = "MessagePartUpdated" /\ event.part.t = "Tool") =>
              /\ event.part.state = None =>
                    (~Has(PartIn0, "state") \/ PartIn0.o["state"] = JNull)
              /\ event.part.state # None =>
                    (Has(PartIn0, "state") /\ PartIn0.o["state"] # JNull)

\* a tool part announced without a state has been classified
C8_Witness ==
    /\ Classified
    /\ WellFormedToolPart
    /\ ~Has(PartIn0, "state")
    /\ event.t = "MessagePartUpdated"
    /\ event.part.state = None

\* the current envelope is a message.part.updated whose properties are an
\* object with a well-typed delta and whose part is an object with a type
TypedPart ==
    /\ envelope.event_type = "message.part.updated"
    /\ IsObj(envelope.properties)
    /\ OptStrOk(envelope.properties, "delta")
    /\ HasObj(envelope.properties, "part")
    /\ Has(envelope.properties.o["part"], "type")

TypeIn == envelope.properties.o["part"].o["type"]

OtherPartEvent ==
    [t |-> "MessagePartUpdated", part |-> [t |-> "Other"],
     delta |-> OptStr(envelope.properties, "delta")]

\* C13 as claimed: a part whose type is anything other than text, tool,
\* step-start, step-finish is classified MessagePartUpdated with part Other,
\* whatever its other fields; a part of a known type never is.
C13_AsClaimed ==
    (Classified /\ TypedPart) =>
        IF TypeIn.k = "str" /\ TypeIn.s \in KnownPartTypes
        THEN event # OtherPartEvent
        ELSE event = OtherPartEvent

\* C13 amended: a part whose type is a string other than text, tool,
\* step-start, step-finish is classified MessagePartUpdated with part Other,
\* whatever other fields it carries or lacks; a part whose type is not a
\* string (a number, null) is a parse error; a part of one of the four
\* known types is never classified Other.
C13_OtherPart ==
    (Classified /\ TypedPart) =>
        /\ (TypeIn.k = "str" /\ TypeIn.s \notin KnownPartTypes) => event = OtherPartEvent
        /\ TypeIn.k # "str" => event = ParseError("message.part.updated")
        /\ (TypeIn.k = "str" /\ TypeIn.s \in KnownPartTypes) =>
              /\ event.t \in {"MessagePartUpdated", "Unknown"}
              /\ event.t = "MessagePartUpdated" => event.part.t # "Other"

\* a part of type reasoning that has no id has been classified
C13_Witness ==
    /\ Classified
    /\ TypedPart
    /\ TypeIn = JStr("reasoning")
    /\ ~Has(envelope.properties.o["part"], "id")
    /\ event = OtherPartEvent

(***************************************************************************)
(* An event stream: from_envelope is called for one envelope after         *)
(* another, and the caller keeps what it was given.                        *)
(***************************************************************************)
\* envelopes of a stream
MaxStream == 3

ToolPartEnvelope(id, state) ==
    [event_type |-> "message.part.updated",
     properties |-> JObj([part |-> Strip([type |-> JStr("tool"), id |-> id,
                                          tool |-> JStr("bash"), state |-> state])])]

TextPartEnvelope(text, session_id, delta) ==
    [event_type |-> "message.part.updated",
     properties |-> Strip([part |-> Strip([type |-> JStr("text"), id |-> JStr("p1"),
                                           text |-> text, sessionID |-> session_id]),
                           delta |-> delta])]

\* the envelopes of a stream: updates of part p1 in and out of lifecycle
\* order, with more and with fewer fields, an update of another part, an
\* event type this layer does not know and envelopes that do not parse
StreamEnvelopes ==
    {ToolPartEnvelope(JStr("p1"), JObj([status |-> JStr("running"), title |-> JStr("ls")])),
     ToolPartEnvelope(JStr("p1"), JObj([status |-> JStr("running")])),
     ToolPartEnvelope(JStr("p1"), JObj([status |-> JStr("completed"),
                                        output |-> JStr("done")])),
     ToolPartEnvelope(JStr("p1"), Absent),
     ToolPartEnvelope(JStr("p2"), JObj([status |-> JStr("pending")])),
     ToolPartEnvelope(Absent, JObj([status |-> JStr("running")])),
     TextPartEnvelope(JStr("hello"), JStr("s1"), JStr("he")),
     TextPartEnvelope(Absent, Absent, Absent),
     [event_type |-> "server.connected", properties |-> EmptyObj],
     [event_type |-> "session.idle", properties |-> EmptyObj],
     [event_type |-> "session.idle", properties |-> JObj([sessionID |-> JStr("s1")])]}

\* mutant: an update of a tool part that was reported before is merged into
\* the earlier one: the state reported first is kept
Deliver_Merging(env) ==
    /\ Len(delivered) < MaxStream
    /\ LET ev == from_envelope(env)
           Earlier == {k \in 1..Len(delivered) :
                          /\ ev.t = "MessagePartUpdated"
                          /\ ev.part.t = "Tool"
                          /\ delivered[k].event.t = "MessagePartUpdated"
                          /\ delivered[k].event.part.t = "Tool"
                          /\ delivered[k].event.part.id = ev.part.id}
       IN delivered' = Append(delivered,
              [envelope |-> env,
               event |-> IF Earlier = {} THEN ev
                         ELSE [ev EXCEPT !.part.state =
                                  delivered[CHOOSE k \in Earlier :
                                      \A m \in Earlier : k <= m].event.part.state]])
    /\ UNCHANGED <<envelope, event>>

\* the next envelope of the stream is classified: from_envelope takes the
\* envelope by value and reads nothing else
Deliver(env) ==
    /\ Len(delivered) < MaxStream
    /\ delivered' = Append(delivered, [envelope |-> env, event |-> from_envelope(env)])
    /\ UNCHANGED <<envelope, event>>

StreamNext ==
    \E env \in StreamEnvelopes : Deliver(env) /\ UNCHANGED <<reqVars, logVars>>

SpecStream == Init /\ [][StreamNext]_vars

\* the k-th envelope of the stream is an update of a tool part with this id
\* and this status
IsToolUpdate(k, id, status) ==
    delivered[k].envelope \in
        {ToolPartEnvelope(JStr(id), JObj([status |-> JStr(status)])),
         ToolPartEnvelope(JStr(id), JObj([status |-> JStr(status), title |-> JStr("ls")])),
         ToolPartEnvelope(JStr(id), JObj([status |-> JStr(status), output |-> JStr("done")]))}

\* C12: classification keeps no state between calls. In every stream the
\* event given for the k-th envelope is the one from_envelope gives for that
\* envelope alone, whatever came before it (Unknown and parse errors
\* included); for a well-formed envelope it holds the fields of that
\* envelope's properties and nothing else, so nothing of an earlier update
\* of the same part is merged in; a tool part reported running is classified
\* Running also after the same part was reported completed.
C12_Stateless ==
    \A k \in 1..Len(delivered) :
        LET env == delivered[k].envelope
            ev == delivered[k].event
        IN /\ ev = from_envelope(env)
           /\ WellFormed(env.event_type, env.properties)
                 => ev = EventOf(env.event_type, env.properties)
           /\ env.event_type \notin RecognizedTypes => ev = Unknown(env.event_type)
           /\ IsToolUpdate(k, "p1", "running") =>
                 /\ ev.t = "MessagePartUpdated"
                 /\ ev.part.t = "Tool"
                 /\ ev.part.state # None
                 /\ is_running(ev.part.state.v)
           /\ env = ToolPartEnvelope(JStr("p1"), Absent) =>
                 /\ ev.t = "MessagePartUpdated"
                 /\ ev.part.state = None
           /\ env = TextPartEnvelope(Absent, Absent, Absent) =>
                 ev = [t |-> "MessagePartUpdated",
                       part |-> [t |-> "Text", id |-> "p1", session_id |-> None,
                                 message_id |-> None, text |-> "", time |-> None],
                       delta |-> None]

\* a stream of a parse error, then part p1 completed with its output, then
\* part p1 running with no other field
C12_Witness ==
    /\ Len(delivered) = 3
    /\ delivered[1].event = ParseError("message.part.updated")
    /\ IsToolUpdate(2, "p1", "completed")
    /\ is_completed(delivered[2].event.part.state.v)
    /\ delivered[3].envelope = ToolPartEnvelope(JStr("p1"), JObj([status |-> JStr("running")]))
    /\ is_running(delivered[3].event.part.state.v)
    /\ delivered[3].event.part.state.v.title = None


(***************************************************************************)
(* The state machine of the request builders: a request value is built     *)
(* and serialized into the body of its POST.                               *)
(***************************************************************************)
\* the longest parts / answers list built
MaxParts == 2

OptStrings == {None, Some("x"), Some("")}

PartInputs ==
    [t : {"Text"}, text : {"hi"}, synthetic : {None, Some(TRUE), Some(FALSE)}]
    \cup [t : {"File"}, mime : {"image/png"}, url : {"file:///a.png"},
          filename : {None, Some("a.png")}]

QuestionAnswers == [label : {"yes", "no"}, description : OptStrings]

SeqsUpTo(S, n) == UNION {[1..m -> S] : m \in 0..n}

Requests ==
    [t : {"CreateSessionRequest"}, title : OptStrings]
    \cup [t : {"SendPromptRequest"}, parts : SeqsUpTo(PartInputs, MaxParts),
          system : {None, Some("be brief")},
          model : {None, Some([provider_id |-> "anthropic", model_id |-> "m1"])},
          agent : {None, Some("build")}]
    \cup [t : {"PermissionReplyRequest"}, reply : {"Once", "Always", "Reject"},
          message : OptStrings]
    \cup [t : {"QuestionReplyRequest"}, answers : SeqsUpTo(QuestionAnswers, MaxParts)]

\* a request value is constructed
Build ==
    /\ request = NoRequest
    /\ request' \in Requests
    /\ body' = NoBody

\* the request is serialized as the JSON body
Serialize ==
    /\ request # NoRequest
    /\ body = NoBody
    /\ body' = to_value(request)
    /\ UNCHANGED request

\* the body has been sent and the request dropped
Send ==
    /\ body # NoBody
    /\ request' = NoRequest
    /\ body' = NoBody

ReqNext ==
    \/ Build /\ UNCHANGED <<sseVars, logVars>>
    \/ Serialize /\ UNCHANGED <<sseVars, logVars>>
    \/ Send /\ UNCHANGED <<sseVars, logVars>>

SpecReq == Init /\ [][ReqNext]_vars

Serialized == body # NoBody

\* the optional field is in the body exactly when it is set, and never null
OptKeyOk(opt, j, key) ==
    /\ opt = None => ~Has(j, key)
    /\ opt # None => (Has(j, key) /\ j.o[key] # JNull)

\* no key of the object holds null
NoNull(j) == \A key \in DOMAIN j.o : j.o[key] # JNull

PartInputOk(part, j) ==
    /\ NoNull(j)
    /\ part.t = "Text" =>
          /\ OptKeyOk(part.synthetic, j, "synthetic")
          /\ part.synthetic # None => j.o["synthetic"] = JBool(part.synthetic.v)
    /\ part.t = "File" =>
          /\ OptKeyOk(part.filename, j, "filename")
          /\ part.filename # None => j.o["filename"] = JStr(part.filename.v)

\* C7: in a serialized request body an optional field that is None has no
\* key (and no key holds null), one that is set is under its key; a
\* SendPromptRequest without system, model and agent has the only key parts.
C7_AbsentFieldsOmitted ==
    Serialized =>
        /\ IsObj(body) /\ NoNull(body)
        /\ request.t = "CreateSessionRequest" =>
              /\ OptKeyOk(request.title, body, "title")
              /\ request.title # None => body.o["title"] = JStr(request.title.v)
        /\ request.t = "SendPromptRequest" =>
              /\ OptKeyOk(request.system, body, "system")
              /\ OptKeyOk(request.model, body, "model")
              /\ OptKeyOk(request.agent, body, "agent")
              /\ request.system # None => body.o["system"] = JStr(request.system.v)
              /\ request.agent # None => body.o["agent"] = JStr(request.agent.v)
              /\ request.model # None =>
                    body.o["model"] = JObj([providerId |-> JStr(request.model.v.provider_id),
                                            modelId |-> JStr(request.model.v.model_id)])
              /\ (request.system = None /\ request.model = None /\ request.agent = None)
                    => DOMAIN body.o = {"parts"}
              /\ Len(body.o["parts"].a) = Len(request.parts)
              /\ \A i \in 1..Len(request.parts) :
                    PartInputOk(request.parts[i], body.o["parts"].a[i])
        /\ request.t = "PermissionReplyRequest" =>
              /\ OptKeyOk(request.message, body, "message")
              /\ request.message # None => body.o["message"] = JStr(request.message.v)
        /\ request.t = "QuestionReplyRequest" =>
              /\ Len(body.o["answers"].a) = Len(request.answers)
              /\ \A i \in 1..Len(request.answers) :
                    /\ NoNull(body.o["answers"].a[i])
                    /\ OptKeyOk(request.answers[i].description, body.o["answers"].a[i],
                                "description")

\* a SendPromptRequest with a part and no optional field has been serialized
C7_Witness ==
    /\ Serialized
    /\ request.t = "SendPromptRequest"
    /\ request.system = None /\ request.model = None /\ request.agent = None
    /\ Len(request.parts) = 1
    /\ request.parts[1].t = "Text" /\ request.parts[1].synthetic = None
    /\ DOMAIN body.o = {"parts"}

(***************************************************************************)
(* The state machine of ConversationLogger. A write method builds its row, *)
(* spawns a tokio task that will execute the INSERT, and returns. The      *)
(* tasks run in any order; each INSERT succeeds or fails.                  *)
(***************************************************************************)
\* calls of write methods in a run
MaxCalls == 2
\* ticks of the database clock in a run
MaxClock == 1
\* the largest limit load_recent is called with
MaxLimit == 2

Channels == {"c1", "c2"}

\* limit: i64
Limits == -1..MaxLimit

Unit == "()"

\* the task tokio::spawn is given: the INSERT's table, its bound values and
\* the warning it logs on failure
SpawnInsert(table, row, warning) ==
    /\ tasks' = tasks \cup {[table |-> table, row |-> row, warning |-> warning]}
    /\ nextId' = nextId + 1
    /\ returned' = Unit
    /\ loaded' = NotLoaded
    /\ UNCHANGED <<db, warnings, clock>>

log_user_message(channel_id, sender_name, sender_id, content) ==
    /\ nextId <= MaxCalls
    /\ SpawnInsert("conversation_messages",
                   [id |-> nextId, channel_id |-> channel_id, role |-> "user",
                    sender_name |-> Some(sender_name), sender_id |-> Some(sender_id),
                    content |-> content],
                   "failed to persist user message")

\* mutant: the INSERT is awaited in the call
log_bot_message_Awaits(channel_id, content) ==
    /\ nextId <= MaxCalls
    /\ db' = db \cup {[table |-> "conversation_messages",
                       row |-> [id |-> nextId, channel_id |-> channel_id,
                                role |-> "assistant", sender_name |-> None,
                                sender_id |-> None, content |-> content],
                       created_at |-> clock]}
    /\ nextId' = nextId + 1
    /\ returned' = Unit
    /\ loaded' = NotLoaded
    /\ UNCHANGED <<tasks, warnings, clock>>

log_bot_message(channel_id, content) ==
    /\ nextId <= MaxCalls
    /\ SpawnInsert("conversation_messages",
                   [id |-> nextId, channel_id |-> channel_id, role |-> "assistant",
                    sender_name |-> None, sender_id |-> None, content |-> content],
                   "failed to persist bot message")

save_compaction_summary(channel_id, summary, turns_covered) ==
    /\ nextId <= MaxCalls
    /\ SpawnInsert("compaction_summaries",
                   [id |-> nextId, channel_id |-> channel_id, summary |-> summary,
                    turns_covered |-> turns_covered],
                   "failed to persist compaction summary")

archive_transcript(channel_id, transcript_json) ==
    /\ nextId <= MaxCalls
    /\ SpawnInsert("conversation_archives",
                   [id |-> nextId, channel_id |-> channel_id,
                    transcript |-> transcript_json],
                   "failed to archive transcript")

\* a spawned task's INSERT executes; the row gets the database's
\* created_at, which the statement does not bind
InsertOk(task) ==
    /\ task \in tasks
    /\ tasks' = tasks \ {task}
    /\ db' = db \cup {[table |-> task.table, row |-> task.row, created_at |-> clock]}
    /\ returned' = NoReturn
    /\ loaded' = NotLoaded
    /\ UNCHANGED <<warnings, clock, nextId>>

\* a spawned task's INSERT fails: tracing::warn! and nothing else
InsertFails(task) ==
    /\ task \in tasks
    /\ tasks' = tasks \ {task}
    /\ warnings' = [warnings EXCEPT ![task.warning] = @ + 1]
    /\ returned' = NoReturn
    /\ loaded' = NotLoaded
    /\ UNCHANGED <<db, clock, nextId>>

\* time passes in the database
Tick ==
    /\ clock < MaxClock
    /\ clock' = clock + 1
    /\ returned' = NoReturn
    /\ loaded' = NotLoaded
    /\ UNCHANGED <<db, tasks, warnings, nextId>>

\* the rows WHERE channel_id = ? selects
ChannelRows(channel_id) ==
    {r \in db : r.table = "conversation_messages" /\ r.row.channel_id = channel_id}

\* ORDER BY created_at DESC: q lists the rows of R, later created_at first;
\* rows of equal created_at come in either order
IsDescending(q, R) ==
    /\ \A r \in R : \E n \in 1..Len(q) : q[n] = r
    /\ \A m, n \in 1..Len(q) : m < n => q[m].created_at >= q[n].created_at

\* LIMIT ?: the number of rows of n the query returns; SQLite reads a
\* negative limit as no limit
Limited(n, limit) == IF limit < 0 \/ limit > n THEN n ELSE limit

\* the ConversationMessage built from a row
Message(r) ==
    [id |-> r.row.id, channel_id |-> r.row.channel_id, role |-> r.row.role,
     sender_name |-> r.row.sender_name, sender_id |-> r.row.sender_id,
     content |-> r.row.content, created_at |-> r.created_at]

\* mutant: the rows are left in the query's order
Reverse_Not(seq) == seq

\* messages.reverse()
Reverse(seq) == [i \in 1..Len(seq) |-> seq[Len(seq) + 1 - i]]

load_recent(channel_id, limit) ==
    /\ \E q \in [1..Cardinality(ChannelRows(channel_id)) -> ChannelRows(channel_id)] :
          /\ IsDescending(q, ChannelRows(channel_id))
          /\ LET rows == SubSeq(q, 1, Limited(Len(q), limit))
                 messages == [n \in 1..Len(rows) |-> Message(rows[n])]
             IN loaded' = [channel_id |-> channel_id, limit |-> limit,
                           result |-> Ok(Reverse(messages)), called |-> TRUE]
    /\ returned' = NoReturn
    /\ UNCHANGED <<db, tasks, warnings, clock, nextId>>

\* the query fails: map_err and `?`
load_recent_fails(channel_id, limit) ==
    /\ loaded' = [channel_id |-> channel_id, limit |-> limit, result |-> Err,
                  called |-> TRUE]
    /\ returned' = NoReturn
    /\ UNCHANGED <<db, tasks, warnings, clock, nextId>>

\* the write methods and their spawned tasks
WriteNext ==
    \/ \E c \in Channels : log_user_message(c, "alice", "u1", "hi") /\ UNCHANGED <<sseVars, reqVars>>
    \/ \E c \in Channels : log_bot_message(c, "hello") /\ UNCHANGED <<sseVars, reqVars>>
    \/ \E c \in Channels : save_compaction_summary(c, "summary", 4) /\ UNCHANGED <<sseVars, reqVars>>
    \/ \E c \in Channels : archive_transcript(c, "[]") /\ UNCHANGED <<sseVars, reqVars>>
    \/ \E task \in tasks : InsertOk(task) /\ UNCHANGED <<sseVars, reqVars>>
    \/ \E task \in tasks : InsertFails(task) /\ UNCHANGED <<sseVars, reqVars>>

SpecWrite == Init /\ [][WriteNext]_vars

\* the message log: messages are logged, stored as time passes, and read back
HistoryNext ==
    \/ \E c \in Channels : log_user_message(c, "alice", "u1", "hi") /\ UNCHANGED <<sseVars, reqVars>>
    \/ \E c \in Channels : log_bot_message(c, "hello") /\ UNCHANGED <<sseVars, reqVars>>
    \/ \E task \in tasks : InsertOk(task) /\ UNCHANGED <<sseVars, reqVars>>
    \/ \E task \in tasks : InsertFails(task) /\ UNCHANGED <<sseVars, reqVars>>
    \/ Tick /\ UNCHANGED <<sseVars, reqVars>>
    \/ \E c \in Channels, limit \in Limits : load_recent(c, limit) /\ UNCHANGED <<sseVars, reqVars>>
    \/ \E c \in Channels : load_recent_fails(c, MaxLimit) /\ UNCHANGED <<sseVars, reqVars>>

SpecHistory == Init /\ [][HistoryNext]_vars

(***************************************************************************)
(* Properties of the conversation logger                                   *)
(***************************************************************************)
Failures == warnings["failed to persist user message"]
            + warnings["failed to persist bot message"]
            + warnings["failed to persist compaction summary"]
            + warnings["failed to archive transcript"]

\* C9: a write method returns () with its INSERT still pending, whatever
\* the state of earlier writes; a failed INSERT writes a warning and
\* changes nothing else: no caller sees it, every other pending write stays
\* pending and can still run, and later writes are still accepted.
C9_FireAndForget ==
    /\ [](returned \in {NoReturn, Unit})
    /\ [](\A task \in tasks : ENABLED InsertOk(task))
    /\ [](nextId <= MaxCalls => \A c \in Channels :
            /\ ENABLED log_user_message(c, "alice", "u1", "hi")
            /\ ENABLED log_bot_message(c, "hello")
            /\ ENABLED save_compaction_summary(c, "summary", 4)
            /\ ENABLED archive_transcript(c, "[]"))
    /\ [][/\ nextId' # nextId =>
               /\ returned' = Unit
               /\ db' = db
               /\ warnings' = warnings
               /\ \E task \in tasks' \ tasks : tasks' = tasks \cup {task}
          /\ warnings' # warnings =>
               /\ returned' = NoReturn
               /\ db' = db
               /\ nextId' = nextId
               /\ \E task \in tasks : tasks' = tasks \ {task}]_vars

\* one INSERT has failed and the other write of the run has been stored
C9_Witness ==
    /\ Failures = 1
    /\ Cardinality(db) = 1
    /\ tasks = {}

\* the stored messages of all channels
ChannelRowsOfAny == {r \in db : r.table = "conversation_messages"}

Max(a, b) == IF a > b THEN a ELSE b
Min(a, b) == IF a < b THEN a ELSE b

LoadedOk == loaded.called /\ loaded.result.ok

\* the messages of the last load_recent
Recent == loaded.result.v

\* the stored rows of the channel the last load_recent read
Stored == ChannelRows(loaded.channel_id)

IsReturned(r) == \E i \in 1..Len(Recent) : Recent[i].id = r.row.id

\* what C10 says of any limit: only stored messages of the channel, none
\* twice, none older than one left out, oldest first
RecentOfChannel ==
    /\ \A i \in 1..Len(Recent) :
          /\ Recent[i].channel_id = loaded.channel_id
          /\ \E r \in Stored : Message(r) = Recent[i]
    /\ \A i, j \in 1..Len(Recent) : i # j => Recent[i].id # Recent[j].id
    /\ \A r \in Stored : ~IsReturned(r) =>
          \A i \in 1..Len(Recent) : r.created_at <= Recent[i].created_at
    /\ \A i, j \in 1..Len(Recent) : i < j => Recent[i].created_at <= Recent[j].created_at

\* C10 as claimed: load_recent(channel, limit) returns at most limit
\* messages (none for a limit below 0), the limit most recent of the
\* channel, oldest first.
C10_AsClaimed ==
    LoadedOk =>
        /\ RecentOfChannel
        /\ Len(Recent) <= Max(loaded.limit, 0)
        /\ Len(Recent) = Min(Max(loaded.limit, 0), Cardinality(Stored))

\* C10 amended: for a limit of 0 or more, load_recent returns the limit
\* most recent stored messages of the channel (all of them when there are
\* fewer), oldest first; for a limit below 0 it returns all the stored
\* messages of the channel, oldest first.
C10_MostRecentOldestFirst ==
    LoadedOk =>
        /\ RecentOfChannel
        /\ loaded.limit >= 0 => Len(Recent) = Min(loaded.limit, Cardinality(Stored))
        /\ loaded.limit < 0 => Len(Recent) = Cardinality(Stored)

\* a channel holds two messages of different created_at and load_recent
\* was asked for one
C10_Witness ==
    /\ LoadedOk
    /\ loaded.limit = 1
    /\ Cardinality(Stored) = 2
    /\ \E r \in Stored : r.created_at = 0
    /\ Len(Recent) = 1
    /\ Recent[1].created_at = 1

\* the message of the a-th call precedes that of the b-th in the last
\* load_recent
ReturnedBefore(a, b) ==
    \E i, j \in 1..Len(Recent) : i < j /\ Recent[i].id = a /\ Recent[j].id = b

\* C11 as claimed: of two messages logged on one channel and both stored,
\* the one logged first is stored first (its created_at is not the later
\* one), and a load_recent that returns both returns it first. The id of a
\* row is the number of the call that logged it. Messages of equal
\* created_at, which the query may return in either order, are left aside:
\* the statement is read in the way most favourable to the code.
C11_AsClaimed ==
    /\ \A a, b \in ChannelRowsOfAny :
          (a.row.channel_id = b.row.channel_id /\ a.row.id < b.row.id)
          => a.created_at <= b.created_at
    /\ LoadedOk =>
          \A a, b \in Stored :
              (/\ a.row.id < b.row.id
               /\ a.created_at # b.created_at
               /\ IsReturned(a) /\ IsReturned(b))
              => ReturnedBefore(a.row.id, b.row.id)

====
